---------------------------- MODULE Spec2Model ----------------------------
(***************************************************************************)
(* CAN bus fault-confinement simulation (parrot_project).                  *)
(*                                                                         *)
(* The model covers utils.py (ErrorStates, CanNode, CanBusBase) and the    *)
(* two event-driven drivers experiment_1/simulate.py and                   *)
(* experiment_3/simulate.py.  One run of the model is one of               *)
(*   "exp1"  - experiment_1 CanBus().execute()                             *)
(*   "exp3"  - experiment_3 CanBus().execute()                             *)
(*   "node"  - a single CanNode driven by arbitrary collide()/succeed()    *)
(*   "sched" - a CanBusBase driven by arbitrary schedule() calls and by    *)
(*             the pop/advance-clock/record/callback loop body             *)
(***************************************************************************)
EXTENDS Integers, Sequences, FiniteSets

VARIABLES
    scenario,   \* which program is running
    pc,         \* position of the program: "start", "run", "done"
    maxRounds,  \* the round limit in force (MAX_ROUNDS)
    time_us,    \* CanBusBase.time_us
    events,     \* CanBusBase.events, the heap, as the set of its tuples
    counter,    \* CanBusBase.counter, the insertion sequence
    rounds,     \* CanBusBase.rounds
    nodes,      \* the CanNode objects, by role
    history,    \* CanBusBase.history, one list per key
    popped,     \* the tuples popped so far, in the order they were popped
    call        \* the last call made by a "node" or "sched" run

vars == <<scenario, pc, maxRounds, time_us, events, counter, rounds, nodes,
          history, popped, call>>

---------------------------------------------------------------------------
(* Program constants, utils.py *)

GAP_US == 31

MAX_ROUNDS == 3

ASSISTANT_GAP_US == 200

\* the defender's gap taken as the attacker's period
AttackerPeriodIsGap == GAP_US

ATTACKER_PERIOD_US == 1000000

ACTIVE == "ACTIVE"

ERROR_PASSIVE == "PASSIVE"

BUS_OFF == "BUS-OFF"

---------------------------------------------------------------------------
(* Bounds of the model *)

\* round limits 1..RoundLimitBound are explored by "exp1"
RoundLimitBound == 4

\* number of collide() calls of a "node" run
MaxCollide == 33

\* number of succeed() calls of a "node" run
MaxSucceed == 9

\* number of schedule() calls of a "sched" run
MaxSched == 3

\* delays -MaxDelay..MaxDelay are passed to schedule() by a "sched" run
MaxDelay == 2

---------------------------------------------------------------------------
(* CanNode *)

NewNode == [TEC |-> 0, state |-> ACTIVE]

\* the thresholds compared with > instead of >=
UpdateStateStrict(tec) ==
    IF tec > 256 THEN BUS_OFF
    ELSE IF tec > 128 THEN ERROR_PASSIVE
    ELSE ACTIVE

UpdateState(tec) ==
    IF tec >= 256 THEN BUS_OFF
    ELSE IF tec >= 128 THEN ERROR_PASSIVE
    ELSE ACTIVE

\* the penalty assigned instead of added
CollideAssigns(n) == [TEC |-> 8, state |-> UpdateState(8)]

Collide(n) ==
    LET tec == n.TEC + 8
    IN  [TEC |-> tec, state |-> UpdateState(tec)]

\* the decrement without its guard
SucceedUnguarded(n) ==
    LET tec == n.TEC - 1
    IN  [TEC |-> tec, state |-> UpdateState(tec)]

Succeed(n) ==
    LET tec == IF n.TEC > 0 THEN n.TEC - 1 ELSE n.TEC
    IN  [TEC |-> tec, state |-> UpdateState(tec)]

---------------------------------------------------------------------------
(* CanBusBase *)

NodeNames(s) ==
    CASE s = "exp3" -> {"attacker", "defender", "assistant"}
      [] s = "node" -> {"probe"}
      [] OTHER      -> {"attacker", "defender"}

HistoryKeys(s) ==
    CASE s = "exp3" -> {"time", "attacker", "defender", "assistant"}
      [] OTHER      -> {"time", "attacker", "defender"}

\* ties broken by the latest insertion
TupleLessLifo(e, f) ==
    \/ e.time < f.time
    \/ e.time = f.time /\ e.order > f.order

\* tuple comparison of heapq: (event_time, order, callback); order is unique
TupleLess(e, f) ==
    \/ e.time < f.time
    \/ e.time = f.time /\ e.order < f.order

\* heapq.heappop: the smallest tuple of the heap
HeapPop(q) == CHOOSE e \in q : \A f \in q \ {e} : TupleLess(e, f)

\* the delay taken as the event time
EventTimeAbsolute(t, delay_us) == delay_us

\* event_time = self.time_us + delay_us
EventTime(t, delay_us) == t + delay_us

\* schedule(delay_us, callback) at clock t, on b = [events, counter]
Schedule(b, t, delay_us, callback) ==
    [events  |-> b.events \cup {[time  |-> EventTime(t, delay_us),
                                 order |-> b.counter,
                                 cb    |-> callback]},
     counter |-> b.counter + 1]

\* the assistant's series left out of the record
RecordHistoryBaseOnly(h, t, ns) ==
    [k \in DOMAIN h |->
        IF k = "assistant" THEN h[k]
        ELSE Append(h[k], IF k = "time" THEN t ELSE ns[k].TEC)]

\* record_history() at clock t (experiment 3 also appends the assistant)
RecordHistory(h, t, ns) ==
    [k \in DOMAIN h |->
        Append(h[k], IF k = "time" THEN t ELSE ns[k].TEC)]

NoCall == [op |-> "none", delay |-> 0, tec |-> 0, events |-> {},
           counter |-> 0, ncollide |-> 0, nsucceed |-> 0]

Init ==
    /\ scenario \in {"exp1", "exp3", "node", "sched"}
    /\ pc = "start"
    /\ maxRounds \in IF scenario = "exp1" THEN 1..RoundLimitBound
                                          ELSE {MAX_ROUNDS}
    /\ time_us = 0
    /\ events = {}
    /\ counter = 0
    /\ rounds = 0
    /\ nodes = [n \in NodeNames(scenario) |-> NewNode]
    /\ history = [k \in HistoryKeys(scenario) |-> <<>>]
    /\ popped = <<>>
    /\ call = NoCall

---------------------------------------------------------------------------
(* The loop body shared by both execute(): pop, advance the clock, record, *)
(* then run the callback cb with the outcome (ns, b) it computes from the  *)
(* popped tuple                                                            *)

LoopStep(e, ns, b) ==
    /\ time_us' = e.time
    /\ history' = RecordHistory(history, e.time, nodes)
    /\ popped' = Append(popped, e)
    /\ nodes' = ns
    /\ events' = b.events
    /\ counter' = b.counter

\* the popped tuple left on the heap
RestKeeps(e) == [events |-> events, counter |-> counter]

\* self.events and self.counter after the pop of e
Rest(e) == [events |-> events \ {e}, counter |-> counter]


---------------------------------------------------------------------------
(* experiment_1/simulate.py *)

Exp1Execute ==
    /\ scenario = "exp1" /\ pc = "start"
    /\ LET b == Schedule([events |-> events, counter |-> counter],
                         time_us, 0, "start_round")
       IN  events' = b.events /\ counter' = b.counter
    /\ pc' = "run"
    /\ UNCHANGED <<scenario, maxRounds, time_us, rounds, nodes, history,
                   popped, call>>

\* while self.events:
Exp1LoopCondition == events # {}

\* the limit compared with >=
RoundLimitReachedEarly(r, limit) == r >= limit

\* if self.rounds > MAX_ROUNDS: return
RoundLimitReached(r, limit) == r > limit

\* a collision step scheduled for each of the two senders
Exp1StartRoundPerSender ==
    /\ scenario = "exp1" /\ pc = "run" /\ Exp1LoopCondition
    /\ LET e == HeapPop(events)
       IN  /\ e.cb = "start_round"
           /\ rounds' = rounds + 1
           /\ LoopStep(e, nodes,
                IF RoundLimitReached(rounds + 1, maxRounds)
                THEN Rest(e)
                ELSE Schedule(Schedule(Rest(e), e.time, 0, "handle_collision"),
                              e.time, 0, "handle_collision"))
    /\ UNCHANGED <<scenario, pc, maxRounds, call>>

Exp1StartRound ==
    /\ scenario = "exp1" /\ pc = "run" /\ Exp1LoopCondition
    /\ LET e == HeapPop(events)
       IN  /\ e.cb = "start_round"
           /\ rounds' = rounds + 1
           /\ LoopStep(e, nodes,
                IF RoundLimitReached(rounds + 1, maxRounds)
                THEN Rest(e)
                ELSE Schedule(Rest(e), e.time, 0, "handle_collision"))
    /\ UNCHANGED <<scenario, pc, maxRounds, call>>

\* collisions repeated until bus-off
Exp1CollisionRepeatsToBusOff(ns) == ns["attacker"].state # BUS_OFF

\* if self.attacker.state == ErrorStates.ACTIVE (after both collide)
Exp1CollisionRepeats(ns) == ns["attacker"].state = ACTIVE

Exp1HandleCollision ==
    /\ scenario = "exp1" /\ pc = "run" /\ Exp1LoopCondition
    /\ LET e  == HeapPop(events)
           ns == [nodes EXCEPT !["attacker"] = Collide(@),
                               !["defender"] = Collide(@)]
       IN  /\ e.cb = "handle_collision"
           /\ LoopStep(e, ns,
                IF Exp1CollisionRepeats(ns)
                THEN Schedule(Rest(e), e.time, GAP_US, "handle_collision")
                ELSE Schedule(Rest(e), e.time, GAP_US, "recover_defender"))
    /\ UNCHANGED <<scenario, pc, maxRounds, rounds, call>>

\* the defender's recovery handed over to the attacker after one send
Exp1RecoverDefenderOnce ==
    /\ scenario = "exp1" /\ pc = "run" /\ Exp1LoopCondition
    /\ LET e  == HeapPop(events)
           ns == [nodes EXCEPT !["defender"] = Succeed(@)]
       IN  /\ e.cb = "recover_defender"
           /\ LoopStep(e, ns,
                Schedule(Rest(e), e.time, GAP_US, "recover_attacker"))
    /\ UNCHANGED <<scenario, pc, maxRounds, rounds, call>>

Exp1RecoverDefender ==
    /\ scenario = "exp1" /\ pc = "run" /\ Exp1LoopCondition
    /\ LET e  == HeapPop(events)
           ns == [nodes EXCEPT !["defender"] = Succeed(@)]
       IN  /\ e.cb = "recover_defender"
           /\ LoopStep(e, ns,
                IF ns["defender"].state # ACTIVE
                THEN Schedule(Rest(e), e.time, GAP_US, "recover_defender")
                ELSE Schedule(Rest(e), e.time, GAP_US, "recover_attacker"))
    /\ UNCHANGED <<scenario, pc, maxRounds, rounds, call>>

Exp1RecoverAttacker ==
    /\ scenario = "exp1" /\ pc = "run" /\ Exp1LoopCondition
    /\ LET e  == HeapPop(events)
           ns == [nodes EXCEPT !["attacker"] = Succeed(@)]
       IN  /\ e.cb = "recover_attacker"
           /\ LoopStep(e, ns,
                IF ns["attacker"].state # ACTIVE
                THEN Schedule(Rest(e), e.time, GAP_US, "recover_attacker")
                ELSE Schedule(Rest(e), e.time, GAP_US, "start_round"))
    /\ UNCHANGED <<scenario, pc, maxRounds, rounds, call>>

\* the loop is left: log_f.close(), plot, return
Exp1Finish ==
    /\ scenario = "exp1" /\ pc = "run" /\ ~Exp1LoopCondition
    /\ pc' = "done"
    /\ UNCHANGED <<scenario, maxRounds, time_us, events, counter, rounds,
                   nodes, history, popped, call>>

---------------------------------------------------------------------------
(* experiment_3/simulate.py *)

Exp3Execute ==
    /\ scenario = "exp3" /\ pc = "start"
    /\ LET b1 == Schedule([events |-> events, counter |-> counter],
                          time_us, 0, "send_attack")
           b2 == Schedule(b1, time_us, 0, "assistant_send")
       IN  events' = b2.events /\ counter' = b2.counter
    /\ pc' = "run"
    /\ UNCHANGED <<scenario, maxRounds, time_us, rounds, nodes, history,
                   popped, call>>

\* the loop run until the heap is empty
Exp3LoopConditionDrain == events # {}

\* while self.events and self.attacker.state != ErrorStates.BUS_OFF:
Exp3LoopCondition == events # {} /\ nodes["attacker"].state # BUS_OFF

Exp3SendAttack ==
    /\ scenario = "exp3" /\ pc = "run" /\ Exp3LoopCondition
    /\ LET e  == HeapPop(events)
           b1 == Schedule(Rest(e), e.time, 0, "handle_collision")
       IN  /\ e.cb = "send_attack"
           /\ LoopStep(e, nodes,
                IF nodes["attacker"].state = ACTIVE
                THEN Schedule(b1, e.time, ATTACKER_PERIOD_US, "send_attack")
                ELSE b1)
    /\ UNCHANGED <<scenario, pc, maxRounds, rounds, call>>

\* the collision repeated until the attacker is bus-off
Exp3HandleCollisionToBusOff ==
    /\ scenario = "exp3" /\ pc = "run" /\ Exp3LoopCondition
    /\ LET e  == HeapPop(events)
           ns == [nodes EXCEPT !["attacker"] = Collide(@),
                               !["defender"] = Collide(@)]
       IN  /\ e.cb = "handle_collision"
           /\ LoopStep(e, ns,
                IF ns["attacker"].state # BUS_OFF
                THEN Schedule(Rest(e), e.time, GAP_US, "handle_collision")
                ELSE Schedule(Rest(e), e.time, GAP_US, "recover_defender"))
    /\ UNCHANGED <<scenario, pc, maxRounds, rounds, call>>

Exp3HandleCollision ==
    /\ scenario = "exp3" /\ pc = "run" /\ Exp3LoopCondition
    /\ LET e  == HeapPop(events)
           ns == [nodes EXCEPT !["attacker"] = Collide(@),
                               !["defender"] = Collide(@)]
       IN  /\ e.cb = "handle_collision"
           /\ LoopStep(e, ns,
                IF ns["attacker"].state = ACTIVE
                THEN Schedule(Rest(e), e.time, GAP_US, "handle_collision")
                ELSE Schedule(Rest(e), e.time, GAP_US, "recover_defender"))
    /\ UNCHANGED <<scenario, pc, maxRounds, rounds, call>>

Exp3RecoverDefender ==
    /\ scenario = "exp3" /\ pc = "run" /\ Exp3LoopCondition
    /\ LET e  == HeapPop(events)
           ns == [nodes EXCEPT !["defender"] = Succeed(@)]
       IN  /\ e.cb = "recover_defender"
           /\ LoopStep(e, ns,
                IF ns["defender"].state # ACTIVE
                THEN Schedule(Rest(e), e.time, GAP_US, "recover_defender")
                ELSE Schedule(Rest(e), e.time, 0, "collide_passive"))
    /\ UNCHANGED <<scenario, pc, maxRounds, rounds, call>>

\* next_gap = min(ASSISTANT_GAP_US, GAP_US)
NextGap == IF ASSISTANT_GAP_US <= GAP_US THEN ASSISTANT_GAP_US ELSE GAP_US

\* the passive-flag collision repeated only while the attacker is ACTIVE
Exp3PassiveRepeatsWhileActive(ns) == ns["attacker"].state = ACTIVE

\* if self.attacker.state != ErrorStates.BUS_OFF (after the collide)
Exp3PassiveRepeats(ns) == ns["attacker"].state # BUS_OFF

\* the passive-flag collision charged to the defender as well
Exp3CollidePassiveBoth ==
    /\ scenario = "exp3" /\ pc = "run" /\ Exp3LoopCondition
    /\ LET e  == HeapPop(events)
           ns == [nodes EXCEPT !["attacker"] = Collide(@),
                               !["defender"] = Collide(@)]
       IN  /\ e.cb = "collide_passive"
           /\ LoopStep(e, ns,
                IF Exp3PassiveRepeats(ns)
                THEN Schedule(Rest(e), e.time, NextGap, "collide_passive")
                ELSE Rest(e))
    /\ UNCHANGED <<scenario, pc, maxRounds, rounds, call>>

Exp3CollidePassive ==
    /\ scenario = "exp3" /\ pc = "run" /\ Exp3LoopCondition
    /\ LET e  == HeapPop(events)
           ns == [nodes EXCEPT !["attacker"] = Collide(@)]
       IN  /\ e.cb = "collide_passive"
           /\ LoopStep(e, ns,
                IF Exp3PassiveRepeats(ns)
                THEN Schedule(Rest(e), e.time, NextGap, "collide_passive")
                ELSE Rest(e))
    /\ UNCHANGED <<scenario, pc, maxRounds, rounds, call>>

\* the assistant rescheduled at the defender's gap
Exp3AssistantSendAtGap ==
    /\ scenario = "exp3" /\ pc = "run" /\ Exp3LoopCondition
    /\ LET e == HeapPop(events)
       IN  /\ e.cb = "assistant_send"
           /\ LoopStep(e, nodes,
                IF nodes["attacker"].state # BUS_OFF
                THEN Schedule(Rest(e), e.time, GAP_US, "assistant_send")
                ELSE Rest(e))
    /\ UNCHANGED <<scenario, pc, maxRounds, rounds, call>>

Exp3AssistantSend ==
    /\ scenario = "exp3" /\ pc = "run" /\ Exp3LoopCondition
    /\ LET e == HeapPop(events)
       IN  /\ e.cb = "assistant_send"
           /\ LoopStep(e, nodes,
                IF nodes["attacker"].state # BUS_OFF
                THEN Schedule(Rest(e), e.time, ASSISTANT_GAP_US,
                              "assistant_send")
                ELSE Rest(e))
    /\ UNCHANGED <<scenario, pc, maxRounds, rounds, call>>

\* the loop is left: log_f.close(), plot, return
Exp3Finish ==
    /\ scenario = "exp3" /\ pc = "run" /\ ~Exp3LoopCondition
    /\ pc' = "done"
    /\ UNCHANGED <<scenario, maxRounds, time_us, events, counter, rounds,
                   nodes, history, popped, call>>

---------------------------------------------------------------------------
(* A CanNode on its own: any sequence of collide() and succeed() calls.    *)
(* call records the call just made and the counter it found.               *)

NodeCollide ==
    /\ scenario = "node" /\ call.ncollide < MaxCollide
    /\ nodes' = [nodes EXCEPT !["probe"] = Collide(@)]
    /\ call' = [call EXCEPT !.op = "collide", !.tec = nodes["probe"].TEC,
                            !.ncollide = @ + 1]
    /\ UNCHANGED <<scenario, pc, maxRounds, time_us, events, counter,
                   rounds, history, popped>>

NodeSucceed ==
    /\ scenario = "node" /\ call.nsucceed < MaxSucceed
    /\ nodes' = [nodes EXCEPT !["probe"] = Succeed(@)]
    /\ call' = [call EXCEPT !.op = "succeed", !.tec = nodes["probe"].TEC,
                            !.nsucceed = @ + 1]
    /\ UNCHANGED <<scenario, pc, maxRounds, time_us, events, counter,
                   rounds, history, popped>>

---------------------------------------------------------------------------
(* A CanBusBase on its own: schedule() called with any delay, and the loop *)
(* body of execute() popping a tuple whose callback does nothing.  call    *)
(* records the schedule() call just made and the heap and sequence counter *)
(* it found.                                                               *)

SchedSchedule(delay_us) ==
    /\ scenario = "sched" /\ counter < MaxSched
    /\ LET b == Schedule([events |-> events, counter |-> counter],
                         time_us, delay_us, "noop")
       IN  events' = b.events /\ counter' = b.counter
    /\ call' = [call EXCEPT !.op = "schedule", !.delay = delay_us,
                            !.events = events, !.counter = counter]
    /\ UNCHANGED <<scenario, pc, maxRounds, time_us, rounds, nodes, history,
                   popped>>

SchedPop ==
    /\ scenario = "sched" /\ events # {}
    /\ LET e == HeapPop(events)
       IN  /\ e.cb = "noop"
           /\ LoopStep(e, nodes, Rest(e))
    /\ call' = [call EXCEPT !.op = "pop"]
    /\ UNCHANGED <<scenario, pc, maxRounds, rounds>>

---------------------------------------------------------------------------

Next ==
    \/ Exp1Execute
    \/ Exp1StartRound
    \/ Exp1HandleCollision
    \/ Exp1RecoverDefender
    \/ Exp1RecoverAttacker
    \/ Exp1Finish
    \/ Exp3Execute
    \/ Exp3SendAttack
    \/ Exp3HandleCollision
    \/ Exp3RecoverDefender
    \/ Exp3CollidePassive
    \/ Exp3AssistantSend
    \/ Exp3Finish
    \/ NodeCollide
    \/ NodeSucceed
    \/ \E d \in -MaxDelay..MaxDelay : SchedSchedule(d)
    \/ SchedPop

Spec == Init /\ [][Next]_vars

\* the interpreter keeps running the program: a step that can be taken is
\* taken
FairSpec == Spec /\ WF_vars(Next)

---------------------------------------------------------------------------
(* Properties *)

Probe == nodes["probe"]

Attacker == nodes["attacker"]

Defender == nodes["defender"]

InScenario == scenario \in {"exp1", "exp3"}

\* C1: in every reachable state of both experiments, and after any sequence
\* of collide()/succeed() calls on a node that starts at TEC 0, the stored
\* state of every node agrees with its counter: BUS_OFF iff TEC >= 256,
\* ERROR_PASSIVE iff 128 <= TEC <= 255, ACTIVE iff TEC <= 127.
C1_StateAgreesWithCounter ==
    \A n \in DOMAIN nodes :
        /\ nodes[n].state \in {ACTIVE, ERROR_PASSIVE, BUS_OFF}
        /\ nodes[n].state = BUS_OFF <=> nodes[n].TEC >= 256
        /\ nodes[n].state = ERROR_PASSIVE <=>
               (128 <= nodes[n].TEC /\ nodes[n].TEC <= 255)
        /\ nodes[n].state = ACTIVE <=> nodes[n].TEC <= 127

\* a succeed() has taken a node from 256 (BUS_OFF) down to 255
C1_Witness ==
    /\ scenario = "node"
    /\ call.op = "succeed" /\ call.tec = 256
    /\ Probe.TEC = 255 /\ Probe.state = ERROR_PASSIVE

\* C2: n calls of collide() on a node that starts at counter 0 give counter
\* 8n; the node is ACTIVE for n < 16 and ERROR_PASSIVE at n = 16.
C2_CollideStepSize ==
    (scenario = "node" /\ call.nsucceed = 0) =>
        /\ Probe.TEC = 8 * call.ncollide
        /\ call.ncollide < 16 => Probe.state = ACTIVE
        /\ call.ncollide = 16 => Probe.state = ERROR_PASSIVE

\* sixteen collide() calls and nothing else
C2_Witness ==
    /\ scenario = "node"
    /\ call.nsucceed = 0 /\ call.ncollide = 16
    /\ Probe.TEC = 128 /\ Probe.state = ERROR_PASSIVE

\* C3: succeed() takes exactly 1 from a counter that is > 0 and leaves a
\* counter of 0 at 0; no counter of any node is ever negative, in either
\* experiment or after any sequence of collide()/succeed() calls.
C3_RecoveryFloor ==
    /\ \A n \in DOMAIN nodes : nodes[n].TEC >= 0
    /\ (scenario = "node" /\ call.op = "succeed") =>
           Probe.TEC = (IF call.tec > 0 THEN call.tec - 1 ELSE 0)

\* succeed() called on a node whose counter is 0
C3_Witness ==
    /\ scenario = "node"
    /\ call.op = "succeed" /\ call.tec = 0
    /\ Probe.TEC = 0

\* the tuple popped last
LastPopped == popped[Len(popped)]

\* C4: in both experiments' run loops the virtual time set by popping a
\* tuple is >= the virtual time set by popping the tuple before it; the
\* clock never moves backwards.
C4_MonotonicClock ==
    InScenario =>
        /\ \A i \in 1..(Len(popped) - 1) : popped[i].time <= popped[i + 1].time
        /\ popped # <<>> => time_us = LastPopped.time
        /\ time_us >= 0

\* the clock has advanced between two pops of experiment 3
C4_Witness ==
    /\ scenario = "exp3"
    /\ Len(popped) >= 2
    /\ popped[Len(popped) - 1].time < LastPopped.time
    /\ time_us = LastPopped.time

\* (fireTime, sequence) of e is smaller than that of f
PairBefore(e, f) ==
    e.time < f.time \/ (e.time = f.time /\ e.order < f.order)

\* C5: every pop takes the pending tuple with the smallest (fireTime,
\* sequence) pair, so of two tuples scheduled for the same fireTime the one
\* scheduled first runs first; in experiment 3 the attacker's first send
\* runs before the assistant's first send, which runs before the collision
\* step the attacker's send schedules at t = 0.
C5_TieBreakFifo ==
    /\ [][popped' # popped =>
            /\ popped'[Len(popped')] \in events
            /\ \A f \in events \ {popped'[Len(popped')]} :
                   PairBefore(popped'[Len(popped')], f)]_vars
    /\ [](\A i, j \in 1..Len(popped) :
            (i < j /\ popped[i].time = popped[j].time) =>
                popped[i].order < popped[j].order)
    /\ []((scenario = "exp3" /\ Len(popped) >= 3) =>
            /\ popped[1] = [time |-> 0, order |-> 0, cb |-> "send_attack"]
            /\ popped[2] = [time |-> 0, order |-> 1, cb |-> "assistant_send"]
            /\ popped[3] = [time |-> 0, order |-> 2, cb |-> "handle_collision"])

\* experiment 3 has run its three tuples of t = 0
C5_Witness ==
    /\ scenario = "exp3"
    /\ Len(popped) = 3
    /\ popped[1].time = popped[3].time
    /\ popped[3].cb = "handle_collision"

\* C6: schedule() called with a negative delay is rejected: nothing is
\* inserted into the heap and the sequence counter is not advanced.
C6_NegativeDelayRejected ==
    (scenario = "sched" /\ call.op = "schedule" /\ call.delay < 0) =>
        /\ events = call.events
        /\ counter = call.counter

\* C7: experiment 1 never reaches BUS_OFF: for every round limit >= 1
\* neither the attacker's nor the defender's counter is ever >= 256.
C7_Exp1NeverBusOff ==
    scenario = "exp1" =>
        /\ maxRounds >= 1
        /\ Attacker.TEC < 256 /\ Attacker.state # BUS_OFF
        /\ Defender.TEC < 256 /\ Defender.state # BUS_OFF

\* a run of experiment 1 with the program's round limit has ended
C7_Witness ==
    /\ scenario = "exp1" /\ pc = "done"
    /\ maxRounds = MAX_ROUNDS
    /\ rounds > maxRounds
    /\ Attacker.state = ACTIVE /\ Defender.state = ACTIVE

\* how many times a pop of callback a was directly followed by a pop of b
Handovers(a, b) ==
    Cardinality({i \in 1..(Len(popped) - 1) :
                    popped[i].cb = a /\ popped[i + 1].cb = b})

\* the round cycles begun, and those run through to the next round start
RoundsBegun == Handovers("start_round", "handle_collision")

RoundsCompleted == Handovers("recover_attacker", "start_round")

\* C8: with round limit N experiment 1 runs exactly N full round cycles
\* (round start, collisions, defender recovery, attacker recovery) and then
\* ends with an empty heap; the limit is tested only at a round start, so the
\* run never stops inside a round and never begins the sends or collisions
\* of a round N+1.
C8_Exp1RoundLimit ==
    /\ [](scenario = "exp1" =>
            /\ RoundsBegun <= maxRounds
            /\ RoundsCompleted <= RoundsBegun
            /\ (pc = "run" /\ events = {}) => RoundsCompleted = maxRounds
            /\ pc = "done" =>
                  /\ events = {}
                  /\ rounds = maxRounds + 1
                  /\ RoundsBegun = maxRounds
                  /\ Handovers("handle_collision", "recover_defender") = maxRounds
                  /\ Handovers("recover_defender", "recover_attacker") = maxRounds
                  /\ RoundsCompleted = maxRounds
                  /\ LastPopped.cb = "start_round")
    /\ (scenario = "exp1" => <>(pc = "done"))

\* experiment 1 has ended after the program's three rounds
C8_Witness ==
    /\ scenario = "exp1" /\ pc = "done"
    /\ maxRounds = MAX_ROUNDS
    /\ RoundsCompleted = 3
    /\ events = {}

\* C9: with gap 31, assistant gap 200 and attacker period 1,000,000
\* experiment 3 always ends, after a bounded number of pops, with the
\* attacker's counter >= 256 (BUS_OFF).
C9_Exp3Converges ==
    /\ [](scenario = "exp3" =>
            /\ Len(popped) <= 39
            /\ pc = "done" =>
                  (Attacker.TEC >= 256 /\ Attacker.state = BUS_OFF))
    /\ (scenario = "exp3" => <>(pc = "done"))

\* experiment 3 has ended with the attacker bus-off
C9_Witness ==
    /\ scenario = "exp3" /\ pc = "done"
    /\ Attacker.state = BUS_OFF
    /\ GAP_US = 31 /\ ASSISTANT_GAP_US = 200 /\ ATTACKER_PERIOD_US = 1000000

\* C10: the loop of experiment 3 stops as soon as the attacker is BUS_OFF,
\* whatever is pending: the condition is tested before every pop, so in a
\* state where the attacker is BUS_OFF no tuple is popped, no callback runs
\* and the clock does not advance, and the only step left is leaving the
\* loop.
C10_Exp3StopsAtBusOff ==
    [][(scenario = "exp3" /\ Attacker.state = BUS_OFF) =>
          /\ popped' = popped
          /\ time_us' = time_us
          /\ events' = events
          /\ nodes' = nodes
          /\ history' = history
          /\ pc' = "done"]_vars

\* the loop was left at bus-off with tuples still pending
C10_Witness ==
    /\ scenario = "exp3" /\ pc = "done"
    /\ Attacker.state = BUS_OFF
    /\ events # {}

\* a step of a run loop pops a tuple
Pops == popped' # popped

\* the tuple that step pops
PoppedNow == popped'[Len(popped')]

\* C11: BUS_OFF is terminal within a run: once a node is BUS_OFF no later
\* step of either experiment calls collide() or succeed() on it (its counter
\* and state stay as they are); the attacker's counter in experiment 3 never
\* exceeds 256.
C11_BusOffTerminal ==
    /\ [][InScenario =>
            \A n \in DOMAIN nodes :
                nodes[n].state = BUS_OFF => nodes'[n] = nodes[n]]_vars
    /\ [](scenario = "exp3" => Attacker.TEC <= 256)

\* the passive-flag collision that took the attacker to 256 was the last
\* step on it
C11_Witness ==
    /\ scenario = "exp3" /\ pc = "done"
    /\ Attacker.TEC = 256
    /\ LastPopped.cb = "collide_passive"
    /\ \E e \in events : e.cb = "send_attack"

\* C12: in both run loops exactly one history record is appended per popped
\* tuple, before its callback runs, holding the tuple's virtual time and the
\* counters every tracked node had before the callback; so all history
\* series always have the same length, the number of tuples popped so far,
\* and the recorded times are non-decreasing.
C12_HistoryPerPop ==
    /\ [][InScenario =>
            IF Pops
            THEN \A k \in DOMAIN history :
                    history'[k] =
                        Append(history[k],
                               IF k = "time" THEN PoppedNow.time
                                             ELSE nodes[k].TEC)
            ELSE history' = history]_vars
    /\ [](InScenario =>
            /\ DOMAIN history = {"time"} \cup DOMAIN nodes
            /\ \A k \in DOMAIN history : Len(history[k]) = Len(popped)
            /\ \A i \in 1..Len(popped) : history["time"][i] = popped[i].time
            /\ \A i \in 1..(Len(popped) - 1) :
                   history["time"][i] <= history["time"][i + 1])

\* experiment 3 has recorded the counters as they were before a collision
C12_Witness ==
    /\ scenario = "exp3"
    /\ Len(popped) >= 2
    /\ LastPopped.cb = "handle_collision"
    /\ Len(history["assistant"]) = Len(popped)
    /\ history["attacker"][Len(popped)] = Attacker.TEC - 8
    /\ history["time"][Len(popped)] = time_us

\* the callbacks of the tuples pending after a step
PendingCallbacks == {e.cb : e \in events'}

\* C13: in every round of experiment 1 the steps come in the order round
\* start, one or more collision steps (repeated while the attacker is still
\* ACTIVE after colliding), one or more defender recoveries (repeated until
\* the defender is ACTIVE), one or more attacker recoveries (repeated until
\* the attacker is ACTIVE), next round start; no attacker recovery happens
\* while the defender is not ACTIVE and no collision happens between a
\* round's first recovery and the next round start.
C13_Exp1PhaseOrder ==
    /\ [](scenario = "exp1" =>
            /\ popped # <<>> => popped[1].cb = "start_round"
            /\ \A i \in 1..(Len(popped) - 1) :
                 LET a == popped[i].cb
                     b == popped[i + 1].cb
                 IN  \/ a = "start_round" /\ b = "handle_collision"
                     \/ a = "handle_collision"
                          /\ b \in {"handle_collision", "recover_defender"}
                     \/ a = "recover_defender"
                          /\ b \in {"recover_defender", "recover_attacker"}
                     \/ a = "recover_attacker"
                          /\ b \in {"recover_attacker", "start_round"})
    /\ [][(scenario = "exp1" /\ Pops) =>
            /\ PoppedNow.cb = "start_round" =>
                   PendingCallbacks \subseteq {"handle_collision"}
            /\ PoppedNow.cb = "handle_collision" =>
                   PendingCallbacks =
                       IF nodes'["attacker"].state = ACTIVE
                       THEN {"handle_collision"} ELSE {"recover_defender"}
            /\ PoppedNow.cb = "recover_defender" =>
                   PendingCallbacks =
                       IF nodes'["defender"].state # ACTIVE
                       THEN {"recover_defender"} ELSE {"recover_attacker"}
            /\ PoppedNow.cb = "recover_attacker" =>
                   /\ Defender.state = ACTIVE
                   /\ PendingCallbacks =
                          IF nodes'["attacker"].state # ACTIVE
                          THEN {"recover_attacker"} ELSE {"start_round"}]_vars

\* a later round: the attacker recovers after the defender's eight sends
C13_Witness ==
    /\ scenario = "exp1" /\ popped # <<>>
    /\ rounds = 2
    /\ LastPopped.cb = "recover_attacker"
    /\ Handovers("recover_defender", "recover_defender") >= 7
    /\ Defender.state = ACTIVE /\ Attacker.state = ERROR_PASSIVE

\* how often the tuple with sequence number o has been popped
TimesPopped(o) == Cardinality({i \in 1..Len(popped) : popped[i].order = o})

\* how many pending tuples carry sequence number o
TimesPending(o) == Cardinality({e \in events : e.order = o})

\* C14: every scheduled tuple is held by the heap from its creation until
\* it is popped and is executed at most once, never re-entered or re-queued
\* (a follow-up is always a new tuple with a fresh, strictly larger sequence
\* number); in experiment 1, whose loop runs until the heap is empty, every
\* scheduled tuple is executed exactly once.
C14_EventLifecycle ==
    /\ [](InScenario =>
            /\ \A e \in events : e.order \in 0..(counter - 1)
            /\ \A i \in 1..Len(popped) : popped[i].order \in 0..(counter - 1)
            /\ \A o \in 0..(counter - 1) :
                   /\ TimesPopped(o) <= 1
                   /\ TimesPending(o) + TimesPopped(o) = 1
            /\ (scenario = "exp1" /\ pc = "done") =>
                   /\ Len(popped) = counter
                   /\ \A o \in 0..(counter - 1) : TimesPopped(o) = 1)
    /\ [][InScenario =>
            /\ Pops => (PoppedNow \in events /\ PoppedNow \notin events')
            /\ \A e \in events' \ events :
                   /\ e.order >= counter /\ e.order < counter'
                   /\ \A f \in events : f.order < e.order
                   /\ \A i \in 1..Len(popped') : popped'[i].order < e.order
            /\ \A e \in events \ events' : Pops /\ e = PoppedNow]_vars

\* experiment 1 has ended: all its scheduled tuples have run, once each
C14_Witness ==
    /\ scenario = "exp1" /\ pc = "done"
    /\ maxRounds = 2
    /\ counter = Len(popped)
    /\ counter > 30
    /\ TimesPopped(0) = 1 /\ TimesPopped(counter - 1) = 1

\* the pending passive-flag collision steps after a step
PendingPassive == {e \in events' : e.cb = "collide_passive"}

\* the smaller of the assistant gap and the defender's gap
SmallerGap == IF GAP_US < ASSISTANT_GAP_US THEN GAP_US ELSE ASSISTANT_GAP_US

\* C15: the passive-flag collision phase of experiment 3 starts, at zero
\* delay, only once the defender has recovered to ACTIVE; each of its steps
\* adds 8 to the attacker's counter and leaves the defender's and the
\* assistant's counters unchanged; successive steps are min(assistant gap,
\* gap) apart and repeat until the attacker is BUS_OFF.
C15_Exp3PassivePhase ==
    [][(scenario = "exp3" /\ Pops) =>
         /\ PoppedNow.cb = "recover_defender" =>
              IF nodes'["defender"].state = ACTIVE
              THEN /\ Cardinality(PendingPassive) = 1
                   /\ \A e \in PendingPassive : e.time = time_us'
              ELSE PendingPassive = {}
         /\ PoppedNow.cb = "collide_passive" =>
              /\ Defender.state = ACTIVE
              /\ nodes'["attacker"].TEC = Attacker.TEC + 8
              /\ nodes'["defender"] = Defender
              /\ nodes'["assistant"] = nodes["assistant"]
              /\ IF nodes'["attacker"].state # BUS_OFF
                 THEN /\ Cardinality(PendingPassive) = 1
                      /\ \A e \in PendingPassive :
                             e.time = time_us' + SmallerGap
                 ELSE PendingPassive = {}
         /\ PoppedNow.cb \notin {"recover_defender", "collide_passive"} =>
              PendingPassive = {e \in events : e.cb = "collide_passive"}]_vars

\* the sixteenth passive-flag step has taken the attacker to BUS_OFF
C15_Witness ==
    /\ scenario = "exp3" /\ popped # <<>>
    /\ LastPopped.cb = "collide_passive"
    /\ Handovers("collide_passive", "collide_passive") >= 10
    /\ Attacker.state = BUS_OFF
    /\ Defender.TEC = 127 /\ nodes["assistant"].TEC = 0

\* C16: an assistant send step of experiment 3 changes no node's counter or
\* state (the assistant's counter is 0 and its state ACTIVE in every
\* reachable state), and it reschedules itself after the assistant gap only
\* while the attacker has not reached BUS_OFF.
C16_Exp3AssistantLoop ==
    /\ [](scenario = "exp3" =>
            /\ nodes["assistant"].TEC = 0
            /\ nodes["assistant"].state = ACTIVE
            /\ Cardinality({e \in events : e.cb = "assistant_send"}) <= 1)
    /\ [][(scenario = "exp3" /\ Pops /\ PoppedNow.cb = "assistant_send") =>
            /\ nodes' = nodes
            /\ IF Attacker.state # BUS_OFF
               THEN events' = (events \ {PoppedNow}) \cup
                        {[time  |-> PoppedNow.time + ASSISTANT_GAP_US,
                          order |-> counter,
                          cb    |-> "assistant_send"]}
               ELSE events' = events \ {PoppedNow}]_vars
    /\ [][(scenario = "exp3" /\ Attacker.state = BUS_OFF) =>
            {e \in events' : e.cb = "assistant_send"} \subseteq events]_vars

\* the assistant has sent during the passive-flag phase and is pending again
C16_Witness ==
    /\ scenario = "exp3" /\ popped # <<>>
    /\ LastPopped.cb = "assistant_send"
    /\ LastPopped.time = 4 * ASSISTANT_GAP_US
    /\ Attacker.state = ERROR_PASSIVE
    /\ \E e \in events : e.cb = "assistant_send" /\ e.time = 5 * ASSISTANT_GAP_US

\* C17: in experiment 1 the heap never holds more than one tuple: every
\* handler schedules at most one follow-up and the run is a single chain, so
\* no two tuples are ever pending for the same fireTime and the FIFO
\* tie-break is never exercised.
C17_Exp1SinglePending ==
    /\ [](scenario = "exp1" =>
            /\ Cardinality(events) <= 1
            /\ \A e, f \in events : e.time = f.time => e = f)
    /\ [][(scenario = "exp1" /\ Pops) =>
            /\ events = {PoppedNow}
            /\ Cardinality(events' \ events) <= 1]_vars

\* a tuple is pending at the time of the tuple just popped (the collision
\* step a round start schedules at delay 0), and it is the only one
C17_Witness ==
    /\ scenario = "exp1" /\ popped # <<>>
    /\ LastPopped.cb = "start_round"
    /\ rounds = 2
    /\ Cardinality(events) = 1
    /\ \A e \in events : e.time = time_us

\* the round the i-th popped tuple belongs to: the round starts popped so far
RoundOf(i) == Cardinality({j \in 1..i : popped[j].cb = "start_round"})

\* the collision steps popped so far in round r
CollisionsIn(r) ==
    Cardinality({i \in 1..Len(popped) :
                    popped[i].cb = "handle_collision" /\ RoundOf(i) = r})

\* round r has gone on to its recoveries
InRecovery(r) ==
    \E i \in 1..Len(popped) :
        popped[i].cb = "recover_defender" /\ RoundOf(i) = r

\* C18: in experiment 1 the attacker's and the defender's counters are equal
\* at every round start and at every collision step and neither ever
\* exceeds 135: round 1 runs 16 collision steps from 0 to 128; every later
\* round starts with both counters at 127 and runs exactly one collision
\* step (to 135) before recovery brings both back to 127.
C18_Exp1CounterProfile ==
    scenario = "exp1" =>
        /\ Attacker.TEC <= 135 /\ Defender.TEC <= 135
        /\ \A i \in 1..Len(popped) :
             /\ popped[i].cb \in {"start_round", "handle_collision"} =>
                    history["attacker"][i] = history["defender"][i]
             /\ popped[i].cb = "start_round" =>
                    history["attacker"][i] = (IF RoundOf(i) = 1 THEN 0 ELSE 127)
             /\ (popped[i].cb = "handle_collision" /\ RoundOf(i) > 1) =>
                    history["attacker"][i] = 127
        /\ (popped # <<>> /\ LastPopped.cb \in {"start_round", "handle_collision"})
               => Attacker.TEC = Defender.TEC
        /\ \A r \in 1..rounds :
             /\ CollisionsIn(r) <= (IF r = 1 THEN 16 ELSE 1)
             /\ InRecovery(r) =>
                  /\ CollisionsIn(r) = (IF r = 1 THEN 16 ELSE 1)
                  /\ \E i \in 1..Len(popped) :
                        /\ popped[i].cb = "recover_defender" /\ RoundOf(i) = r
                        /\ history["attacker"][i] = (IF r = 1 THEN 128 ELSE 135)
                        /\ history["defender"][i] = (IF r = 1 THEN 128 ELSE 135)
        /\ (popped # <<>> /\ LastPopped.cb = "start_round" /\ rounds > 1) =>
               (Attacker.TEC = 127 /\ Defender.TEC = 127)

\* the single collision step of a later round has taken both counters from
\* 127 to 135
C18_Witness ==
    /\ scenario = "exp1" /\ popped # <<>>
    /\ rounds = 3
    /\ LastPopped.cb = "handle_collision"
    /\ history["attacker"][Len(popped)] = 127
    /\ Attacker.TEC = 135 /\ Defender.TEC = 135
    /\ CollisionsIn(1) = 16 /\ CollisionsIn(2) = 1

\* how many popped tuples carried callback c
TimesRun(c) == Cardinality({i \in 1..Len(popped) : popped[i].cb = c})

\* C19: in experiment 3 with gap 31, assistant gap 200 and attacker period
\* 1,000,000 the attacker's send step runs exactly once: the attacker is
\* BUS_OFF at virtual time 961, the re-send scheduled for t = 1,000,000 is
\* still pending, never run, when the run stops, and the clock never exceeds
\* 961.
C19_Exp3SingleAttack ==
    scenario = "exp3" =>
        /\ time_us <= 961
        /\ TimesRun("send_attack") <= 1
        /\ popped # <<>> =>
               /\ TimesRun("send_attack") = 1
               /\ \E e \in events : e.cb = "send_attack" /\ e.time = 1000000
        /\ Attacker.state = BUS_OFF <=> (time_us = 961 /\ Attacker.TEC = 256)
        /\ pc = "done" =>
               /\ Attacker.state = BUS_OFF
               /\ time_us = 961
               /\ {e \in events : e.cb = "send_attack"} =
                      {[time |-> 1000000, order |-> 3, cb |-> "send_attack"]}

\* the run has stopped at t = 961 with the re-send still on the heap
C19_Witness ==
    /\ scenario = "exp3" /\ pc = "done"
    /\ time_us = 961
    /\ TimesRun("send_attack") = 1
    /\ [time |-> ATTACKER_PERIOD_US, order |-> 3, cb |-> "send_attack"] \in events

\* C20: in experiment 3 the defender never reaches BUS_OFF: with the
\* program's parameters its counter never exceeds 128, and when the run
\* stops (attacker BUS_OFF) the defender is ACTIVE with counter 127.
C20_Exp3DefenderSafe ==
    scenario = "exp3" =>
        /\ Defender.state # BUS_OFF
        /\ Defender.TEC <= 128
        /\ (pc = "done" \/ Attacker.state = BUS_OFF) =>
               (Defender.state = ACTIVE /\ Defender.TEC = 127)

\* the run has stopped: the attacker is bus-off, the defender back at 127
C20_Witness ==
    /\ scenario = "exp3" /\ pc = "done"
    /\ Attacker.state = BUS_OFF
    /\ Defender.TEC = 127 /\ Defender.state = ACTIVE
    /\ TimesRun("recover_defender") = 1

=============================================================================
